---- MODULE Spec2Model ----
(***************************************************************************)
(* OneAgent: the LangGraph conversation loop of agent_setup.py (agent ->   *)
(* should_continue -> tools -> agent), its tool adapters, the remote       *)
(* helpers of tools.py and the /chat endpoint of main.py.                  *)
(*                                                                         *)
(* Library behaviour the source relies on, as modelled here:               *)
(*  - add_messages (langgraph) gives every message without an id a fresh   *)
(*    id, replaces a message of the left list that has the id of a new     *)
(*    message and appends the other new messages;                          *)
(*  - ToolExecutor (langgraph.prebuilt) answers an invocation of a name    *)
(*    that is not in its tool map with the text "<name> is not a valid     *)
(*    tool, try one of [...]" and calls the tool otherwise; batch() runs   *)
(*    the invocations on a thread pool and returns the results in the      *)
(*    order of the invocations;                                            *)
(*  - a compiled StateGraph aborts a run with GraphRecursionError once     *)
(*    recursion_limit supersteps have run and a node is still scheduled;   *)
(*  - workflow.compile() without a checkpointer keeps no state between     *)
(*    two runs, whatever thread_id the config carries.                     *)
(***************************************************************************)
EXTENDS Integers, Sequences, FiniteSets, TLC

(***************************************************************************)
(* Bounds of the model and constants of the program                        *)
(***************************************************************************)
\* Longest batch of tool calls the reasoning service attaches to one message.
MaxBatch == 2

\* Supersteps one run of the graph may take before GraphRecursionError.  The
\* limit is a run-time setting that neither main.py nor agent_setup.py sets.
RecursionLimit == 12

\* max_iterations of the former AgentExecutor (agent_setup copy.py).
iteration_cap == 5

\* pairs.get('limit', 20)
DefaultLimit == 20

Requests == {"r1", "r2"}
FirstRequest == {"r1"}

UserIds == {"", "u1"}
Texts == {"", "hello"}
\* "" stands for an absent (None) or empty session_id: both are falsy.
SessionIds == {"", "s1"}

(***************************************************************************)
(* Messages                                                                *)
(***************************************************************************)
\* The content of a message: its text and, when the text is str(res) of the
\* answer of a collaborator, the records that the text spells out.
Out(text, data) == [text |-> text, data |-> data]

NoId == 0

HumanMessage(content) ==
    [id |-> NoId, type |-> "human", content |-> Out(content, <<>>),
     tool_calls |-> <<>>, tool_call_id |-> NoId]

AIMessage(content, tool_calls) ==
    [id |-> NoId, type |-> "ai", content |-> Out(content, <<>>),
     tool_calls |-> tool_calls, tool_call_id |-> NoId]

ToolMessage(content, tool_call_id) ==
    [id |-> NoId, type |-> "tool", content |-> content,
     tool_calls |-> <<>>, tool_call_id |-> tool_call_id]

SystemPrompt == "You are a helpful financial assistant"

RECURSIVE MaxId(_)
MaxId(msgs) ==
    IF msgs = <<>> THEN 0
    ELSE LET m == MaxId(Tail(msgs))
         IN IF Head(msgs).id > m THEN Head(msgs).id ELSE m

\* A faulty variant of add_messages: a state key without a reducer is
\* overwritten by what a node returns.
add_messages_overwrite(left, right) ==
    [i \in DOMAIN right |-> [right[i] EXCEPT !.id = i]]

\* langgraph.graph.message.add_messages, the reducer of AgentState.messages.
RECURSIVE add_messages(_, _)
add_messages(left, right) ==
    IF right = <<>> THEN left
    ELSE LET m0 == Head(right)
             m == IF m0.id = NoId THEN [m0 EXCEPT !.id = MaxId(left) + 1] ELSE m0
             hit == {i \in DOMAIN left : left[i].id = m.id}
             merged == IF hit = {}
                       THEN Append(left, m)
                       ELSE [i \in DOMAIN left |-> IF i \in hit THEN m ELSE left[i]]
         IN add_messages(merged, Tail(right))

(***************************************************************************)
(* Tool input strings: "k=v;k=v;..." as the sequence of its ';' segments   *)
(***************************************************************************)
Seg(k, v) == [eq |-> TRUE, k |-> k, v |-> v]
Bare(t) == [eq |-> FALSE, k |-> t, v |-> ""]

\* dict(x.split('=', 1) for x in input_str.split(';') if '=' in x):
\* segments without '=' are dropped and the last value of a key wins.
ParsePairs(input_str) ==
    LET idx == {i \in DOMAIN input_str : input_str[i].eq}
        keys == {input_str[i].k : i \in idx}
        last(k) == CHOOSE i \in idx :
                      /\ input_str[i].k = k
                      /\ \A j \in idx : input_str[j].k = k => j <= i
    IN [k \in keys |-> input_str[last(k)].v]

\* float(s): the strings float() accepts, in cents; any other string raises
\* ValueError.
FloatOf == ("12.50" :> 1250) @@ ("7" :> 700)

\* int(s): the strings int() accepts ("12.50" is not one of them).
IntOf == ("7" :> 7) @@ ("1" :> 1)

(***************************************************************************)
(* The remote collaborators and the helpers of tools.py                    *)
(***************************************************************************)
\* What one HTTP exchange of requests.post / requests.get ends in: a 2xx
\* answer, or a RequestException (connection error, timeout, non-2xx status
\* raised by raise_for_status).
NetOutcomes == {"ok", "fail"}

Record(user_id, amount, text) == [user_id |-> user_id, amount |-> amount, text |-> text]

\* One HTTP request on the wire.
Wire(op, user_id, ok) == [op |-> op, user_id |-> user_id, ok |-> ok]

\* What a helper hands back: its return value, the HTTP requests it issued and
\* the collaborator's records after it.
Ret(res, wire, rem) == [res |-> res, raised |-> FALSE, wire |-> wire, remote |-> rem]
Raise(exc, rem) == [res |-> Out(exc, <<>>), raised |-> TRUE, wire |-> <<>>, remote |-> rem]

SelectSeq2(s, user_id) == SelectSeq(s, LAMBDA rec : rec.user_id = user_id)

\* The newest `limit` records of a user, newest first (the collaborator's list).
RECURSIVE Reverse(_)
Reverse(s) == IF s = <<>> THEN <<>> ELSE Append(Reverse(Tail(s)), Head(s))

Newest(s, user_id, limit) ==
    LET mine == Reverse(SelectSeq2(s, user_id))
    IN IF limit <= 0 THEN <<>>
       ELSE IF Len(mine) <= limit THEN mine ELSE SubSeq(mine, 1, limit)

\* Faulty variant: the collaborator answers the POST and keeps no record.
create_expense_lost(user_id, amount, description, net, rem) ==
    IF net = "ok"
    THEN Ret(Out("{expense}", <<Record(user_id, amount, description)>>),
             <<Wire("POST /expenses", user_id, TRUE)>>, rem)
    ELSE Ret(Out("{'error': 'Failed to create expense'}", <<>>),
             <<Wire("POST /expenses", user_id, FALSE)>>, rem)

\* Faulty variant: a failed POST is sent a second time.
create_expense_retry(user_id, amount, description, net, rem) ==
    LET rec == Record(user_id, amount, description)
    IN Ret(Out("{expense}", <<rec>>),
           IF net = "ok" THEN <<Wire("POST /expenses", user_id, TRUE)>>
           ELSE <<Wire("POST /expenses", user_id, FALSE), Wire("POST /expenses", user_id, TRUE)>>,
           [rem EXCEPT !.expenses = Append(@, rec)])

\* tools.create_expense
create_expense(user_id, amount, description, net, rem) ==
    IF net = "ok"
    THEN LET rec == Record(user_id, amount, description)
         IN Ret(Out("{expense}", <<rec>>),
                <<Wire("POST /expenses", user_id, TRUE)>>,
                [rem EXCEPT !.expenses = Append(@, rec)])
    ELSE Ret(Out("{'error': 'Failed to create expense'}", <<>>),
             <<Wire("POST /expenses", user_id, FALSE)>>, rem)

\* tools.create_note
create_note(user_id, text, net, rem) ==
    IF net = "ok"
    THEN LET rec == Record(user_id, 0, text)
         IN Ret(Out("{note}", <<rec>>),
                <<Wire("POST /notes", user_id, TRUE)>>,
                [rem EXCEPT !.notes = Append(@, rec)])
    ELSE Ret(Out("{'error': 'Failed to create note'}", <<>>),
             <<Wire("POST /notes", user_id, FALSE)>>, rem)

\* str() of a list of records: "[]" for the empty list, else the records
\* between brackets, which the data of the result stand for.
StrList(records, tag) == IF records = <<>> THEN "[]" ELSE tag

\* Faulty variant: the five newest records only.
fetch_expenses_summary(user_id, limit, net, rem) ==
    IF net = "ok"
    THEN LET expenses == Newest(rem.expenses, user_id, IF limit > 5 THEN 5 ELSE limit)
         IN Ret(Out(StrList(expenses, "[expenses]"), expenses),
                <<Wire("POST /fetchExpenses", user_id, TRUE)>>, rem)
    ELSE Ret(Out("[{'error': 'Failed to fetch expenses'}]", <<>>),
             <<Wire("POST /fetchExpenses", user_id, FALSE)>>, rem)

\* Faulty variant: a sentence in place of the empty list.
fetch_expenses_sentence(user_id, limit, net, rem) ==
    IF net = "ok"
    THEN LET expenses == Newest(rem.expenses, user_id, limit)
         IN Ret(Out(IF expenses = <<>> THEN "No expenses found for this user."
                    ELSE "[expenses]", expenses),
                <<Wire("POST /fetchExpenses", user_id, TRUE)>>, rem)
    ELSE Ret(Out("[{'error': 'Failed to fetch expenses'}]", <<>>),
             <<Wire("POST /fetchExpenses", user_id, FALSE)>>, rem)

\* tools.fetch_expenses: the "expenses" list of the answer, as it came.
fetch_expenses(user_id, limit, net, rem) ==
    IF net = "ok"
    THEN LET expenses == Newest(rem.expenses, user_id, limit)
         IN Ret(Out(StrList(expenses, "[expenses]"), expenses),
                <<Wire("POST /fetchExpenses", user_id, TRUE)>>, rem)
    ELSE Ret(Out("[{'error': 'Failed to fetch expenses'}]", <<>>),
             <<Wire("POST /fetchExpenses", user_id, FALSE)>>, rem)

\* tools.fetch_notes
fetch_notes(user_id, limit, net, rem) ==
    IF net = "ok"
    THEN Ret(Out(StrList(Newest(rem.notes, user_id, limit), "[notes]"),
                 Newest(rem.notes, user_id, limit)),
             <<Wire("GET /notes", user_id, TRUE)>>, rem)
    ELSE Ret(Out("[{'error': 'Failed to fetch notes'}]", <<>>),
             <<Wire("GET /notes", user_id, FALSE)>>, rem)

(***************************************************************************)
(* The tool adapters of agent_setup.py                                     *)
(***************************************************************************)
\* try: ... except Exception as e: return f"<prefix>{str(e)}"
Caught(prefix, r) ==
    IF r.raised THEN Ret(Out(prefix \o r.res.text, <<>>), r.wire, r.remote) ELSE r

\* The try block of tool_create_expense: the arguments are evaluated left to
\* right before create_expense is called.
create_expense_args(input_str, net, rem) ==
    LET pairs == ParsePairs(input_str)
    IN IF "user_id" \notin DOMAIN pairs THEN Raise("'user_id'", rem)
       ELSE IF "amount" \notin DOMAIN pairs THEN Raise("'amount'", rem)
       ELSE IF pairs["amount"] \notin DOMAIN FloatOf
            THEN Raise("could not convert string to float", rem)
       ELSE create_expense(pairs["user_id"], FloatOf[pairs["amount"]],
                           IF "description" \in DOMAIN pairs
                           THEN pairs["description"] ELSE "expense",
                           net, rem)

\* Faulty variants of tool_create_expense: no try/except around the body, and missing
\* or non-numeric arguments replaced by defaults instead of raising.
tool_create_expense_uncaught(input_str, net, rem) ==
    create_expense_args(input_str, net, rem)

tool_create_expense_defaults(input_str, net, rem) ==
    LET pairs == ParsePairs(input_str)
        user == IF "user_id" \in DOMAIN pairs THEN pairs["user_id"] ELSE "unknown"
        amount == IF "amount" \in DOMAIN pairs /\ pairs["amount"] \in DOMAIN FloatOf
                  THEN FloatOf[pairs["amount"]] ELSE 0
    IN create_expense(user, amount, "expense", net, rem)

\* A variant of tool_create_expense that validates the keys against the declared
\* input format and refuses an undeclared one.
tool_create_expense_strict(input_str, net, rem) ==
    IF DOMAIN ParsePairs(input_str) \subseteq {"user_id", "amount", "description", "date"}
    THEN Caught("Error creating expense: ", create_expense_args(input_str, net, rem))
    ELSE Ret(Out("Error creating expense: unexpected parameter", <<>>), <<>>, rem)

tool_create_expense(input_str, net, rem) ==
    Caught("Error creating expense: ", create_expense_args(input_str, net, rem))

tool_create_note(input_str, net, rem) ==
    LET pairs == ParsePairs(input_str)
    IN Caught("Error creating note: ",
              IF "user_id" \notin DOMAIN pairs THEN Raise("'user_id'", rem)
              ELSE IF "text" \notin DOMAIN pairs THEN Raise("'text'", rem)
              ELSE create_note(pairs["user_id"], pairs["text"], net, rem))

\* int(pairs.get('limit', 20)) of the two fetch adapters.
Limit(pairs) ==
    IF "limit" \notin DOMAIN pairs THEN DefaultLimit
    ELSE IF pairs["limit"] \in DOMAIN IntOf THEN IntOf[pairs["limit"]] ELSE -1

BadLimit(pairs) == "limit" \in DOMAIN pairs /\ pairs["limit"] \notin DOMAIN IntOf

tool_fetch_expenses(input_str, net, rem) ==
    LET pairs == ParsePairs(input_str)
    IN Caught("Error fetching expenses: ",
              IF "user_id" \notin DOMAIN pairs THEN Raise("'user_id'", rem)
              ELSE IF BadLimit(pairs) THEN Raise("invalid literal for int()", rem)
              ELSE fetch_expenses(pairs["user_id"], Limit(pairs), net, rem))

tool_fetch_notes(input_str, net, rem) ==
    LET pairs == ParsePairs(input_str)
    IN Caught("Error fetching notes: ",
              IF "user_id" \notin DOMAIN pairs THEN Raise("'user_id'", rem)
              ELSE IF BadLimit(pairs) THEN Raise("invalid literal for int()", rem)
              ELSE fetch_notes(pairs["user_id"], Limit(pairs), net, rem))

\* tool_analyze: one more call of the model; `net` is how that call ends.
tool_analyze(input_str, net, rem) ==
    Caught("Error during analysis: ",
           IF net = "ok" THEN Ret(Out("analysis", <<>>), <<>>, rem)
           ELSE Raise("model call failed", rem))

\* The names the @tool decorator registers: the names of the functions.
tools == {"tool_create_expense", "tool_create_note", "tool_fetch_expenses",
          "tool_fetch_notes", "tool_analyze"}

ToolInvocation(tool, tool_input) == [tool |-> tool, tool_input |-> tool_input]

\* tool_map[name].invoke(tool_input) of the executor; a name outside the map
\* is a KeyError.
tool_map(inv, net, rem) ==
    CASE inv.tool = "tool_create_expense" -> tool_create_expense(inv.tool_input, net, rem)
      [] inv.tool = "tool_create_note" -> tool_create_note(inv.tool_input, net, rem)
      [] inv.tool = "tool_fetch_expenses" -> tool_fetch_expenses(inv.tool_input, net, rem)
      [] inv.tool = "tool_fetch_notes" -> tool_fetch_notes(inv.tool_input, net, rem)
      [] inv.tool = "tool_analyze" -> tool_analyze(inv.tool_input, net, rem)
      [] OTHER -> Raise("KeyError", rem)

\* A faulty variant of tool_executor: the lookup without the check of the name.
tool_executor_unchecked(inv, net, rem) == tool_map(inv, net, rem)

\* tool_executor = ToolExecutor(tools), one invocation of its batch.
tool_executor(inv, net, rem) ==
    IF inv.tool \notin tools
    THEN Ret(Out(inv.tool \o " is not a valid tool, try one of [tools]", <<>>), <<>>, rem)
    ELSE tool_map(inv, net, rem)

(***************************************************************************)
(* The reasoning service (llm_with_tools.invoke), an opaque collaborator   *)
(***************************************************************************)
E_good == <<Seg("user_id", "u1"), Seg("amount", "12.50"), Seg("description", "coffee")>>
E_nouser == <<Seg("amount", "12.50")>>
E_nan == <<Seg("user_id", "u1"), Seg("amount", "7"), Seg("amount", "abc")>>
E_extra == <<Seg("user_id", "u1"), Seg("amount", "7"), Seg("colour", "red")>>
N_good == <<Seg("user_id", "u1"), Seg("text", "memo")>>
N_notext == <<Bare("buy milk"), Seg("user_id", "u1")>>
F_good == <<Seg("user_id", "u1"), Seg("limit", "1")>>
F_default == <<Seg("user_id", "u1")>>
F_badlimit == <<Seg("user_id", "u1"), Seg("limit", "12.50")>>

Call(name, args) == [name |-> name, args |-> args]

\* The tool calls the service may ask for: well-formed ones, ones with a
\* missing, malformed or undeclared argument, and one of an unregistered tool.
ToolCallSet ==
    {Call("tool_create_expense", E_good), Call("tool_create_expense", E_nouser),
     Call("tool_create_expense", E_nan), Call("tool_create_expense", E_extra),
     Call("tool_create_expense", F_default),
     Call("tool_create_note", N_good), Call("tool_create_note", N_notext),
     Call("tool_fetch_expenses", F_good), Call("tool_fetch_expenses", F_badlimit),
     Call("tool_fetch_notes", F_default), Call("tool_analyze", E_good),
     Call("delete_expense", E_good)}

Batches == UNION {[1..n -> ToolCallSet] : n \in 1..MaxBatch}

\* The batch of a service that asks for a tool on every turn.
LoopBatch == <<Call("delete_expense", E_good)>>

\* The batches of the requests of one session.
SessionBatches == {<<Call("tool_create_expense", E_good)>>, LoopBatch}

Answer(content, calls) == [fail |-> FALSE, content |-> content, calls |-> calls]
Failure == [fail |-> TRUE, content |-> "", calls |-> <<>>]

Finals == {Answer("", <<>>), Answer("All done.", <<>>)}

Calls(m) == [i \in DOMAIN m.tool_calls |-> Call(m.tool_calls[i].name, m.tool_calls[i].args)]

\* What the service may return for a history: it may fail or reply on every
\* turn; on the first turn it may ask for any batch; after LoopBatch it may ask
\* for LoopBatch again.
Responses(msgs, batches) ==
    IF msgs = <<>> THEN {}
    ELSE
       {Failure} \cup Finals \cup
       (IF msgs[Len(msgs)].type = "human"
        THEN {Answer("", b) : b \in batches} \cup {Answer("Let me check.", LoopBatch)}
        ELSE IF \E i \in DOMAIN msgs : msgs[i].type = "ai" /\ Calls(msgs[i]) = LoopBatch
        THEN {Answer("", LoopBatch)}
        ELSE {})

LLMResponses(msgs) == Responses(msgs, Batches)
SessionResponses(msgs) == Responses(msgs, SessionBatches)

(***************************************************************************)
(* State                                                                   *)
(***************************************************************************)
VARIABLES
    pc,         \* per request: "idle", "agent", "tools", "end", "error", "rejected",
                \* "aborted"
    sid,        \* per request: the thread_id of its config
    messages,   \* per request: AgentState.messages of its run of the graph
    responses,  \* per request: the results of tool_executor.batch so far
    steps,      \* per request: supersteps its run has taken
    modelCalls, \* per request: calls of llm_with_tools.invoke
    lastInput,  \* per request: the messages of its latest model call
    reply,      \* per request: the HTTP response
    remote,     \* the records of the expense and notes collaborators
    wire,       \* the HTTP requests issued to the collaborators
    endpoint,   \* per request: "chat" or "stream", "" before it arrives
    events,     \* per request: the server-sent events of its stream
    request,    \* per request: the ChatRequest it came with
    categories, \* SupabaseStorage: the rows of the table "categories"
    lookups     \* per caller of get_or_create_category: where its call stands

vars == <<pc, sid, messages, responses, steps, modelCalls, lastInput, reply, remote, wire,
          endpoint, events, request, categories, lookups>>

ChatRequest(user_id, message, session_id) ==
    [user_id |-> user_id, message |-> message, session_id |-> session_id]

NoRequest == ChatRequest("", "", "")

\* The callers of SupabaseStorage.get_or_create_category, and a call of one:
\* its arguments, how far it is, the row it returned.
Callers == {"a", "b"}
NoRow == [id |-> 0, user_id |-> "", name |-> ""]
Lookup(phase, user_id, name, row) ==
    [phase |-> phase, user_id |-> user_id, name |-> name, row |-> row]
NoLookup == Lookup("idle", "", "", NoRow)
NoReply == [status |-> 0, session_id |-> "", message |-> ""]
Pending == [done |-> FALSE, out |-> Out("", <<>>)]
Finished == {"end", "error", "rejected", "aborted"}

Init ==
    /\ pc = [r \in Requests |-> "idle"]
    /\ sid = [r \in Requests |-> ""]
    /\ messages = [r \in Requests |-> <<>>]
    /\ responses = [r \in Requests |-> <<>>]
    /\ steps = [r \in Requests |-> 0]
    /\ modelCalls = [r \in Requests |-> 0]
    /\ lastInput = [r \in Requests |-> <<>>]
    /\ reply = [r \in Requests |-> NoReply]
    /\ remote = [expenses |-> <<>>, notes |-> <<>>]
    /\ wire = <<>>
    /\ endpoint = [r \in Requests |-> ""]
    /\ events = [r \in Requests |-> <<>>]
    /\ request = [r \in Requests |-> NoRequest]
    /\ categories = <<>>
    /\ lookups = [c \in Callers |-> NoLookup]

(***************************************************************************)
(* The nodes of the graph                                                  *)
(***************************************************************************)
\* Faulty variants of the routing: the two branches exchanged; a message
\* without text routed to "tools" as well.
should_continue_inverted(msgs) ==
    IF msgs[Len(msgs)].tool_calls # <<>> THEN "END" ELSE "tools"

should_continue_needs_text(msgs) ==
    IF msgs[Len(msgs)].tool_calls # <<>> \/ msgs[Len(msgs)].content.text = ""
    THEN "tools" ELSE "END"

\* should_continue: "tools" when the last message carries tool calls, else END.
should_continue(msgs) ==
    IF msgs[Len(msgs)].tool_calls # <<>> THEN "tools" ELSE "END"

\* call_model: the system prompt is prepended to the input of the model when
\* the first message is not an AIMessage.
ModelInput(msgs) ==
    IF msgs = <<>> \/ msgs[1].type # "ai"
    THEN <<AIMessage(SystemPrompt, <<>>)>> \o msgs
    ELSE msgs

\* The ids the service gives the tool calls of its turn-th message.
CallId(turn, i) == turn * 10 + i

Response(resp, turn) ==
    AIMessage(resp.content,
              [i \in DOMAIN resp.calls |->
                  [name |-> resp.calls[i].name, args |-> resp.calls[i].args,
                   id |-> CallId(turn, i)]])

\* Faulty variants of the pairing of call_tools: every message answers the first call;
\* only the first response is turned into a message.
tool_messages_first_id(resps, tool_calls) ==
    [i \in 1..Len(resps) |-> ToolMessage(resps[i].out, tool_calls[1].id)]

tool_messages_first_only(resps, tool_calls) ==
    <<ToolMessage(resps[1].out, tool_calls[1].id)>>

\* call_tools: zip(responses, last_message.tool_calls) into ToolMessages.
tool_messages(resps, tool_calls) ==
    LET n == IF Len(resps) <= Len(tool_calls) THEN Len(resps) ELSE Len(tool_calls)
    IN [i \in 1..n |-> ToolMessage(resps[i].out, tool_calls[i].id)]

(***************************************************************************)
(* The events of /chat/stream                                              *)
(***************************************************************************)
Event(type, content, tools_, outputs) ==
    [type |-> type, session_id |-> "", content |-> content, tools |-> tools_,
     outputs |-> outputs]

StartEvent(session_id) == [Event("start", "", <<>>, <<>>) EXCEPT !.session_id = session_id]
EndEvent(session_id) == [Event("end", "", <<>>, <<>>) EXCEPT !.session_id = session_id]
ErrorEvent(e) == Event("error", e, <<>>, <<>>)

\* Faulty variant: the tool_call event names the first call only.
agent_events_one_name(agent_messages) ==
    IF agent_messages = <<>> THEN <<>>
    ELSE LET latest_message == agent_messages[Len(agent_messages)]
         IN (IF latest_message.tool_calls # <<>>
             THEN <<Event("tool_call", "", <<latest_message.tool_calls[1].name>>, <<>>)>>
             ELSE <<>>)
            \o (IF latest_message.content.text # ""
                THEN <<Event("token", latest_message.content.text, <<>>, <<>>)>>
                ELSE <<>>)

\* event_generator, a chunk of the "agent" node: a tool_call event with the
\* names of the calls of the latest message, then a token event with its
\* content when it has one.
agent_events(agent_messages) ==
    IF agent_messages = <<>> THEN <<>>
    ELSE LET latest_message == agent_messages[Len(agent_messages)]
         IN (IF latest_message.tool_calls # <<>>
             THEN <<Event("tool_call", "",
                          [i \in DOMAIN latest_message.tool_calls |->
                              latest_message.tool_calls[i].name], <<>>)>>
             ELSE <<>>)
            \o (IF latest_message.content.text # ""
                THEN <<Event("token", latest_message.content.text, <<>>, <<>>)>>
                ELSE <<>>)

\* Faulty variant: one tool_result event for each tool message.
tools_events_each(tool_msgs) ==
    [i \in DOMAIN tool_msgs |-> Event("tool_result", "", <<>>, <<tool_msgs[i].content>>)]

\* event_generator, a chunk of the "tools" node: one tool_result event with
\* the contents of its messages.
tools_events(tool_msgs) ==
    IF tool_msgs = <<>> THEN <<>>
    ELSE <<Event("tool_result", "", <<>>, [i \in DOMAIN tool_msgs |-> tool_msgs[i].content])>>

\* The events a request yields: none on /chat.
Yield(r, evs) ==
    IF endpoint[r] = "stream" THEN [events EXCEPT ![r] = @ \o evs] ELSE events

\* Faulty variant: the end event is yielded after the error event as well.
Raised_then_end(r, e) ==
    /\ reply' = IF endpoint[r] = "chat"
                THEN [reply EXCEPT ![r] =
                        [status |-> 500, session_id |-> "",
                         message |-> "An internal error occurred: " \o e]]
                ELSE reply
    /\ events' = Yield(r, <<ErrorEvent(e), EndEvent(sid[r])>>)

\* An exception e out of the run of the graph: chat answers 500 with its
\* text, event_generator yields an error event with its text.
Raised(r, e) ==
    /\ reply' = IF endpoint[r] = "chat"
                THEN [reply EXCEPT ![r] =
                        [status |-> 500, session_id |-> "",
                         message |-> "An internal error occurred: " \o e]]
                ELSE reply
    /\ events' = Yield(r, <<ErrorEvent(e)>>)

(***************************************************************************)
(* Actions                                                                 *)
(***************************************************************************)
\* Faulty variant: the message alone is looked at.
missing_fields_message_only(user_id, message) ==
    message = ""

\* The validation of both endpoints: not req.user_id or not req.message.
missing_fields(user_id, message) ==
    user_id = "" \/ message = ""

\* Faulty variant: the run starts from what an aborted run of the session
\* left behind.
chat_resumes(r, user_id, message, session_id) ==
    LET thread_id == IF session_id = "" THEN "user-" \o user_id \o "-thread" ELSE session_id
        left == {q \in Requests : pc[q] = "aborted" /\ sid[q] = thread_id}
        saved == IF left = {} THEN <<>> ELSE messages[CHOOSE q \in left : TRUE]
    IN /\ pc[r] = "idle"
       /\ user_id # "" /\ message # ""
       /\ endpoint' = [endpoint EXCEPT ![r] = "chat"]
       /\ request' = [request EXCEPT ![r] = ChatRequest(user_id, message, session_id)]
       /\ pc' = [pc EXCEPT ![r] = "agent"]
       /\ sid' = [sid EXCEPT ![r] = thread_id]
       /\ messages' = [messages EXCEPT ![r] = add_messages(saved, <<HumanMessage(message)>>)]
       /\ UNCHANGED <<reply, responses, steps, modelCalls, lastInput, remote, wire, events,
                      categories, lookups>>

\* POST /chat: validation, the session id, the initial state of the run.
chat(r, user_id, message, session_id) ==
    /\ pc[r] = "idle"
    /\ endpoint' = [endpoint EXCEPT ![r] = "chat"]
    /\ request' = [request EXCEPT ![r] = ChatRequest(user_id, message, session_id)]
    /\ IF missing_fields(user_id, message)
       THEN /\ pc' = [pc EXCEPT ![r] = "rejected"]
            /\ reply' = [reply EXCEPT ![r] =
                  [status |-> 400, session_id |-> "",
                   message |-> "user_id and message are required."]]
            /\ UNCHANGED <<sid, messages>>
       ELSE /\ pc' = [pc EXCEPT ![r] = "agent"]
            /\ sid' = [sid EXCEPT ![r] =
                  IF session_id = "" THEN "user-" \o user_id \o "-thread" ELSE session_id]
            /\ messages' = [messages EXCEPT ![r] = add_messages(<<>>, <<HumanMessage(message)>>)]
            /\ UNCHANGED reply
    /\ UNCHANGED <<responses, steps, modelCalls, lastInput, remote, wire, events,
                   categories, lookups>>

\* POST /chat/stream: the same validation and session id; the response is
\* the stream of event_generator, which opens with the start event.
chat_stream(r, user_id, message, session_id) ==
    /\ pc[r] = "idle"
    /\ endpoint' = [endpoint EXCEPT ![r] = "stream"]
    /\ request' = [request EXCEPT ![r] = ChatRequest(user_id, message, session_id)]
    /\ IF missing_fields(user_id, message)
       THEN /\ pc' = [pc EXCEPT ![r] = "rejected"]
            /\ reply' = [reply EXCEPT ![r] =
                  [status |-> 400, session_id |-> "",
                   message |-> "user_id and message are required."]]
            /\ UNCHANGED <<sid, messages, events>>
       ELSE /\ pc' = [pc EXCEPT ![r] = "agent"]
            /\ sid' = [sid EXCEPT ![r] =
                  IF session_id = "" THEN "user-" \o user_id \o "-thread" ELSE session_id]
            /\ messages' = [messages EXCEPT ![r] = add_messages(<<>>, <<HumanMessage(message)>>)]
            /\ reply' = [reply EXCEPT ![r] =
                  [status |-> 200, session_id |-> "", message |-> ""]]
            /\ events' = [events EXCEPT ![r] = <<StartEvent(sid'[r])>>]
    /\ UNCHANGED <<responses, steps, modelCalls, lastInput, remote, wire, categories,
                   lookups>>

\* Faulty variant: call_model returns the messages it built for the model
\* next to the response, the system prompt among them.
model_update_with_prompt(model_messages, response) ==
    <<model_messages[1], response>>

\* call_model: what the node returns for the "messages" key, the response
\* alone.
model_update(model_messages, response) ==
    <<response>>

\* Faulty variant: a failed call of the model is swallowed and the node runs
\* again.
model_failure_retry(r) ==
    UNCHANGED <<pc, reply, events, messages, responses, steps>>

\* llm_with_tools.invoke raises: nothing catches it in call_model or in the
\* graph, so the run ends with the exception.
model_failure(r) ==
    /\ pc' = [pc EXCEPT ![r] = "error"]
    /\ Raised(r, "model call failed")
    /\ UNCHANGED <<messages, responses, steps>>

\* The "agent" node and the conditional edge out of it.  A failing model call
\* raises out of the run.  At END chat answers with the content of the last
\* message, and event_generator yields the events of the chunk and the end
\* event.
call_model(r, resp) ==
    /\ pc[r] = "agent"
    /\ steps[r] < RecursionLimit
    /\ lastInput' = [lastInput EXCEPT ![r] = ModelInput(messages[r])]
    /\ modelCalls' = [modelCalls EXCEPT ![r] = @ + 1]
    /\ IF resp.fail
       THEN model_failure(r)
       ELSE LET update == model_update(ModelInput(messages[r]),
                                       Response(resp, modelCalls[r] + 1))
                msgs == add_messages(messages[r], update)
            IN /\ messages' = [messages EXCEPT ![r] = msgs]
               /\ steps' = [steps EXCEPT ![r] = @ + 1]
               /\ IF should_continue(msgs) = "tools"
                  THEN /\ pc' = [pc EXCEPT ![r] = "tools"]
                       /\ responses' = [responses EXCEPT ![r] =
                             [i \in DOMAIN msgs[Len(msgs)].tool_calls |-> Pending]]
                       /\ events' = Yield(r, agent_events(update))
                       /\ UNCHANGED reply
                  ELSE /\ pc' = [pc EXCEPT ![r] = "end"]
                       /\ reply' = IF endpoint[r] = "chat"
                                   THEN [reply EXCEPT ![r] =
                                           [status |-> 200, session_id |-> sid[r],
                                            message |-> msgs[Len(msgs)].content.text]]
                                   ELSE reply
                       /\ events' = Yield(r, agent_events(update) \o <<EndEvent(sid[r])>>)
                       /\ UNCHANGED responses
    /\ UNCHANGED <<sid, remote, wire, endpoint, request, categories, lookups>>

\* The "tools" node, first half: tool_executor.batch runs the invocations of
\* the last message on a thread pool, so they complete in any order.  An
\* exception of one invocation raises out of the run.
execute_tool(r, i, net) ==
    /\ pc[r] = "tools"
    /\ steps[r] < RecursionLimit
    /\ i \in DOMAIN responses[r]
    /\ ~responses[r][i].done
    /\ LET tool_call == messages[r][Len(messages[r])].tool_calls[i]
           res == tool_executor(ToolInvocation(tool_call.name, tool_call.args), net, remote)
       IN /\ wire' = wire \o [k \in DOMAIN res.wire |->
                                 [req |-> r, call |-> tool_call.id, op |-> res.wire[k].op,
                                  user_id |-> res.wire[k].user_id, ok |-> res.wire[k].ok]]
          /\ remote' = res.remote
          /\ IF res.raised
             THEN /\ pc' = [pc EXCEPT ![r] = "error"]
                  /\ Raised(r, res.res.text)
                  /\ UNCHANGED responses
             ELSE /\ responses' = [responses EXCEPT ![r][i] = [done |-> TRUE, out |-> res.res]]
                  /\ UNCHANGED <<pc, reply, events>>
    /\ UNCHANGED <<sid, messages, steps, modelCalls, lastInput, endpoint, request, categories, lookups>>

\* Faulty variant: the tool messages go to one history that every run in
\* flight reads.
call_tools_shared(r) ==
    /\ pc[r] = "tools"
    /\ \A i \in DOMAIN responses[r] : responses[r][i].done
    /\ LET last_message == messages[r][Len(messages[r])]
           update == tool_messages(responses[r], last_message.tool_calls)
       IN /\ messages' = [q \in Requests |->
                             IF pc[q] \in {"agent", "tools"}
                             THEN add_messages(messages[q], update) ELSE messages[q]]
          /\ events' = Yield(r, tools_events(update))
    /\ steps' = [steps EXCEPT ![r] = @ + 1]
    /\ pc' = [pc EXCEPT ![r] = "agent"]
    /\ responses' = [responses EXCEPT ![r] = <<>>]
    /\ UNCHANGED <<sid, modelCalls, lastInput, reply, remote, wire, endpoint, request,
                   categories, lookups>>

\* Faulty variant: the runs of one session write to one history without a
\* lock, so the tool messages reach the history of every run of the session.
call_tools_session(r) ==
    /\ pc[r] = "tools"
    /\ \A i \in DOMAIN responses[r] : responses[r][i].done
    /\ LET last_message == messages[r][Len(messages[r])]
           update == tool_messages(responses[r], last_message.tool_calls)
       IN /\ messages' = [q \in Requests |->
                             IF sid[q] = sid[r] /\ pc[q] \in {"agent", "tools"}
                             THEN add_messages(messages[q], update) ELSE messages[q]]
          /\ events' = Yield(r, tools_events(update))
    /\ steps' = [steps EXCEPT ![r] = @ + 1]
    /\ pc' = [pc EXCEPT ![r] = "agent"]
    /\ responses' = [responses EXCEPT ![r] = <<>>]
    /\ UNCHANGED <<sid, modelCalls, lastInput, reply, remote, wire, endpoint, request,
                   categories, lookups>>

\* The "tools" node, second half, and the edge back to "agent".
call_tools(r) ==
    /\ pc[r] = "tools"
    /\ \A i \in DOMAIN responses[r] : responses[r][i].done
    /\ LET last_message == messages[r][Len(messages[r])]
           update == tool_messages(responses[r], last_message.tool_calls)
       IN /\ messages' = [messages EXCEPT ![r] = add_messages(@, update)]
          /\ events' = Yield(r, tools_events(update))
    /\ steps' = [steps EXCEPT ![r] = @ + 1]
    /\ pc' = [pc EXCEPT ![r] = "agent"]
    /\ responses' = [responses EXCEPT ![r] = <<>>]
    /\ UNCHANGED <<sid, modelCalls, lastInput, reply, remote, wire, endpoint, request,
                   categories, lookups>>

\* GraphRecursionError: the run has used its supersteps and a node is still
\* scheduled.
recursion_error(r) ==
    /\ pc[r] \in {"agent", "tools"}
    /\ steps[r] >= RecursionLimit
    /\ pc' = [pc EXCEPT ![r] = "error"]
    /\ Raised(r, "recursion limit reached")
    /\ UNCHANGED <<sid, messages, responses, steps, modelCalls, lastInput, remote, wire,
                   endpoint, request, categories, lookups>>

(***************************************************************************)
(* Specifications                                                          *)
(***************************************************************************)
\* One request, every answer of the reasoning service.
Next ==
    \E r \in FirstRequest :
        \/ \E u \in UserIds, m \in Texts, s \in SessionIds : chat(r, u, m, s)
        \/ \E u \in UserIds, m \in Texts, s \in SessionIds : chat_stream(r, u, m, s)
        \/ \E resp \in LLMResponses(messages[r]) : call_model(r, resp)
        \/ \E i \in 1..MaxBatch, net \in NetOutcomes : execute_tool(r, i, net)
        \/ call_tools(r)
        \/ recursion_error(r)

Spec == Init /\ [][Next]_vars

\* Successive requests, one at a time.
NextSessions ==
    \E r \in Requests :
        \/ /\ \A q \in Requests \ {r} : r \in FirstRequest \/ pc[q] \in Finished
           /\ \/ \E u \in UserIds, m \in Texts, s \in SessionIds : chat(r, u, m, s)
              \/ \E u \in UserIds, m \in Texts, s \in SessionIds : chat_stream(r, u, m, s)
        \/ \E resp \in SessionResponses(messages[r]) : call_model(r, resp)
        \/ \E i \in 1..MaxBatch, net \in NetOutcomes : execute_tool(r, i, net)
        \/ call_tools(r)
        \/ recursion_error(r)

SpecSessions == Init /\ [][NextSessions]_vars

(***************************************************************************)
(* Vocabulary of the properties                                            *)
(***************************************************************************)
IsPrefix(s, t) == Len(s) <= Len(t) /\ \A i \in DOMAIN s : s[i] = t[i]

\* The indices of the assistant messages that carry tool calls.
AskIdx(msgs) == {i \in DOMAIN msgs : msgs[i].type = "ai" /\ msgs[i].tool_calls # <<>>}

\* The agent -> tools cycles of a request so far.
Cycles(r) == Cardinality(AskIdx(messages[r]))

\* The places of the tool calls in a history: <<message index, call index>>.
CallSites(msgs) ==
    UNION {{<<i, k>> : k \in DOMAIN msgs[i].tool_calls} : i \in AskIdx(msgs)}

CallAt(msgs, s) == msgs[s[1]].tool_calls[s[2]]

\* The tool-result messages that answer the call at a place: the ones among
\* the messages right after the assistant message that carry the call's id.
AnswerIdx(msgs, s) ==
    {j \in DOMAIN msgs :
        /\ s[1] < j /\ j <= s[1] + Len(msgs[s[1]].tool_calls)
        /\ msgs[j].type = "tool"
        /\ msgs[j].tool_call_id = CallAt(msgs, s).id}

\* The result of the call at a place when its batch is still under way.
SlotOut(r, s) ==
    IF /\ pc[r] = "tools" /\ s[1] = Len(messages[r])
       /\ s[2] \in DOMAIN responses[r] /\ responses[r][s[2]].done
    THEN {responses[r][s[2]].out} ELSE {}

\* Every tool call of a request that has a result, with the result.
Results(r) ==
    UNION {{[call |-> CallAt(messages[r], s), out |-> o] :
               o \in {messages[r][j].content : j \in AnswerIdx(messages[r], s)}
                     \cup SlotOut(r, s)} :
           s \in CallSites(messages[r])}

\* The HTTP requests one tool call of a request issued.
WireOf(r, id) == {k \in DOMAIN wire : wire[k].req = r /\ wire[k].call = id}

Keys(call) == DOMAIN ParsePairs(call.args)

\* The input format each tool documents: its required and its declared keys.
Required(name) ==
    CASE name = "tool_create_expense" -> {"user_id", "amount"}
      [] name = "tool_create_note" -> {"user_id", "text"}
      [] name \in {"tool_fetch_expenses", "tool_fetch_notes"} -> {"user_id"}
      [] OTHER -> {}

Declared(name) ==
    CASE name = "tool_create_expense" -> {"user_id", "amount", "description", "date"}
      [] name = "tool_create_note" -> {"user_id", "text"}
      [] name \in {"tool_fetch_expenses", "tool_fetch_notes"} -> {"user_id", "limit"}
      [] OTHER -> {}

UnknownTool(call) == call.name \notin tools

MissingKey(call) == call.name \in tools /\ ~(Required(call.name) \subseteq Keys(call))

NotNumeric(call) ==
    \/ /\ call.name = "tool_create_expense" /\ "amount" \in Keys(call)
       /\ ParsePairs(call.args)["amount"] \notin DOMAIN FloatOf
    \/ /\ call.name \in {"tool_fetch_expenses", "tool_fetch_notes"} /\ "limit" \in Keys(call)
       /\ ParsePairs(call.args)["limit"] \notin DOMAIN IntOf

InvalidArgument(call) == MissingKey(call) \/ NotNumeric(call)

Undeclared(call) ==
    call.name \in tools \ {"tool_analyze"} /\ ~(Keys(call) \subseteq Declared(call.name))

\* The texts of the error results.
Prefixes ==
    {"Error creating expense: ", "Error creating note: ", "Error fetching expenses: ",
     "Error fetching notes: ", "Error during analysis: "}

ArgumentErrors ==
    {p \o e : p \in Prefixes,
              e \in {"'user_id'", "'amount'", "'text'", "could not convert string to float",
                     "invalid literal for int()"}}

HandlerErrors ==
    {"{'error': 'Failed to create expense'}", "{'error': 'Failed to create note'}",
     "[{'error': 'Failed to fetch expenses'}]", "[{'error': 'Failed to fetch notes'}]",
     "Error during analysis: model call failed"}

UnknownToolError(name) == name \o " is not a valid tool, try one of [tools]"

\* The latest event of a stream.
LastEvent(r) == events[r][Len(events[r])]

ModelFailed == "An internal error occurred: model call failed"
RecursionFailed == "An internal error occurred: recursion limit reached"

(***************************************************************************)
(* Properties                                                              *)
(***************************************************************************)
\* C1 (as claimed): a request never goes through more than iteration_cap
\* agent -> tools cycles, whatever the reasoning service answers.
C1_CyclesWithinCap == \A r \in Requests : Cycles(r) <= iteration_cap

\* C2 (as claimed): a request never makes more than iteration_cap calls of
\* the model, and one that has asked for tools iteration_cap times ends at END
\* with a reply, not in an error.
C2_NoSixthModelCall ==
    \A r \in Requests :
        /\ modelCalls[r] <= iteration_cap
        /\ (Cycles(r) >= iteration_cap /\ pc[r] \in Finished => pc[r] = "end")

\* C3: when the tools node returns, it has appended to the history exactly one
\* tool message per tool call of the last assistant message, in the order of
\* the calls, the i-th carrying the i-th result and the id of the i-th call.
C3_OneResultPerCallInOrder ==
    [][\A r \in Requests :
          pc[r] = "tools" /\ pc'[r] = "agent" =>
             LET calls == messages[r][Len(messages[r])].tool_calls
                 n == Len(calls)
             IN /\ Len(messages'[r]) = Len(messages[r]) + n
                /\ \A i \in 1..n :
                      LET m == messages'[r][Len(messages[r]) + i]
                      IN /\ m.type = "tool"
                         /\ m.tool_call_id = calls[i].id
                         /\ m.content = responses[r][i].out]_vars

\* C3 witness: a batch of two calls whose second call reached the collaborator
\* before its first one, answered in the order of the calls.
C3_Witness ==
    \E r \in Requests : \E i \in DOMAIN messages[r] :
        /\ pc[r] = "agent"
        /\ messages[r][i].type = "ai" /\ Len(messages[r][i].tool_calls) = 2
        /\ Len(messages[r]) = i + 2
        /\ messages[r][i + 1].tool_call_id = messages[r][i].tool_calls[1].id
        /\ messages[r][i + 2].tool_call_id = messages[r][i].tool_calls[2].id
        /\ \E k, l \in DOMAIN wire :
              k < l /\ wire[k].req = r /\ wire[l].req = r /\ wire[k].call > wire[l].call

\* C4: every tool message carries the id of a tool call of the nearest
\* assistant message before it, and whenever the agent node is about to run,
\* every tool call of the last assistant message has a tool message answering
\* it.
C4_ResultsPairedWithCalls ==
    \A r \in Requests :
        LET msgs == messages[r]
            ai(i) == {j \in 1..(i - 1) : msgs[j].type = "ai"}
        IN /\ \A i \in DOMAIN msgs :
                 msgs[i].type = "tool" =>
                    /\ ai(i) # {}
                    /\ LET j == CHOOSE j \in ai(i) : \A k \in ai(i) : k <= j
                       IN \E c \in DOMAIN msgs[j].tool_calls :
                             msgs[j].tool_calls[c].id = msgs[i].tool_call_id
           /\ pc[r] = "agent" =>
                 \A s \in CallSites(msgs) :
                    (\A j \in AskIdx(msgs) : j <= s[1]) => AnswerIdx(msgs, s) # {}

\* C4 witness: the agent node is about to run again after a batch of two
\* calls, both answered.
C4_Witness ==
    \E r \in Requests :
        /\ pc[r] = "agent" /\ modelCalls[r] = 1
        /\ \E s \in CallSites(messages[r]) : s[2] = 2 /\ AnswerIdx(messages[r], s) # {}

\* C5: no step removes, replaces or reorders a message of a history: the
\* history before the step is a prefix of the history after it.
C5_HistoryAppendOnly ==
    [][\A r \in Requests : IsPrefix(messages[r], messages'[r])]_vars

\* C5 witness: a history that the agent node and the tools node have both
\* extended.
C5_Witness ==
    \E r \in Requests :
        /\ pc[r] = "end" /\ Len(messages[r]) >= 5
        /\ messages[r][1].type = "human" /\ messages[r][2].type = "ai"
        /\ messages[r][3].type = "tool" /\ messages[r][Len(messages[r])].type = "ai"

\* C7: a tool call whose handler fails (a required key missing, an amount or
\* limit that is not a number, a failing HTTP exchange) gets an error text as
\* its result, and no request ends in an error raised by a tool: a request
\* that ends in an error does so for a failed model call or for the recursion
\* limit only.
C7_HandlerFailuresBecomeResults ==
    \A r \in Requests :
        /\ pc[r] = "error" /\ endpoint[r] = "chat" =>
              reply[r].message \in {ModelFailed, RecursionFailed}
        /\ pc[r] = "error" /\ endpoint[r] = "stream" =>
              LastEvent(r) \in {ErrorEvent("model call failed"),
                                ErrorEvent("recursion limit reached")}
        /\ \A res \in Results(r) :
              /\ InvalidArgument(res.call) => res.out.text \in ArgumentErrors
              /\ (\E k \in WireOf(r, res.call.id) : ~wire[k].ok) =>
                    res.out.text \in HandlerErrors

\* C7 witness: the model is called again after a batch in which one call
\* lacked a key and the other met a failing HTTP exchange.
C7_Witness ==
    \E r \in Requests :
        /\ modelCalls[r] = 2
        /\ \E res \in Results(r) : MissingKey(res.call)
        /\ \E res \in Results(r) : \E k \in WireOf(r, res.call.id) : ~wire[k].ok

\* C6 (as claimed): when a request of a session has ended at END and a later
\* request of the same session calls the model, the input of that call holds
\* the messages of the earlier request, in order, before the human message of
\* the later one.
C6_HistoryKeptAcrossRequests ==
    \A p \in FirstRequest, q \in Requests \ FirstRequest :
        pc[p] = "end" /\ sid[p] = sid[q] /\ modelCalls[q] >= 1 =>
           \E k \in DOMAIN lastInput[q] :
              /\ k + Len(messages[p]) <= Len(lastInput[q])
              /\ \A i \in DOMAIN messages[p] :
                    /\ lastInput[q][k + i - 1].type = messages[p][i].type
                    /\ lastInput[q][k + i - 1].content = messages[p][i].content
              /\ lastInput[q][k + Len(messages[p])].type = "human"

\* C8: a call of a tool that is not registered is answered with the text that
\* names it as not valid; the calls next to it in the batch are executed and
\* answered all the same; the run does not end in an error for it; and the
\* next call of the model receives the answer.
C8_UnknownToolIsAnswered ==
    \A r \in Requests :
        /\ \A res \in Results(r) :
              UnknownTool(res.call) => res.out.text = UnknownToolError(res.call.name)
        /\ \A s \in CallSites(messages[r]) :
              UnknownTool(CallAt(messages[r], s)) =>
                 /\ pc[r] = "error" /\ s[1] = Len(messages[r]) => steps[r] >= RecursionLimit
                 /\ s[1] < Len(messages[r]) =>
                       \A k \in DOMAIN messages[r][s[1]].tool_calls :
                          AnswerIdx(messages[r], <<s[1], k>>) # {}
                 /\ modelCalls[r] > Cardinality({i \in AskIdx(messages[r]) : i <= s[1]}) =>
                       \E j \in DOMAIN lastInput[r] :
                          /\ lastInput[r][j].type = "tool"
                          /\ lastInput[r][j].tool_call_id = CallAt(messages[r], s).id
                          /\ lastInput[r][j].content.text
                                = UnknownToolError(CallAt(messages[r], s).name)

\* C8 witness: a batch of an unregistered tool and a create-expense call that
\* wrote its record, after which the model was called with both answers.
C8_Witness ==
    \E r \in Requests :
        /\ modelCalls[r] = 2
        /\ Len(lastInput[r]) = 5
        /\ UnknownTool(lastInput[r][3].tool_calls[1])
        /\ lastInput[r][3].tool_calls[2].name = "tool_create_expense"
        /\ Len(remote.expenses) = 1

\* C9: a tool call of an unregistered tool, or one with a required key missing
\* or with an amount or limit that is not a number, issues no HTTP request;
\* the collaborators hold exactly the records of the write requests that
\* succeeded.
C9_InvalidCallsWriteNothing ==
    /\ \A r \in Requests : \A s \in CallSites(messages[r]) :
          LET call == CallAt(messages[r], s)
          IN UnknownTool(call) \/ InvalidArgument(call) => WireOf(r, call.id) = {}
    /\ Len(remote.expenses)
          = Cardinality({k \in DOMAIN wire : wire[k].op = "POST /expenses" /\ wire[k].ok})
    /\ Len(remote.notes)
          = Cardinality({k \in DOMAIN wire : wire[k].op = "POST /notes" /\ wire[k].ok})

\* C9 witness: a batch of a create-expense call with a non-numeric amount and
\* a create-note call without text has run to its end with nothing on the wire.
C9_Witness ==
    \E r \in Requests :
        /\ pc[r] = "agent"
        /\ \E res \in Results(r) : res.call.name = "tool_create_expense" /\ NotNumeric(res.call)
        /\ \E res \in Results(r) : res.call.name = "tool_create_note" /\ MissingKey(res.call)
        /\ wire = <<>>

\* C10 (as claimed): a tool call whose arguments hold a key the tool does not
\* declare is answered with an argument error and issues no HTTP request.
C10_UndeclaredKeyRejected ==
    \A r \in Requests : \A res \in Results(r) :
        Undeclared(res.call) =>
           /\ res.out.text \in ArgumentErrors
           /\ WireOf(r, res.call.id) = {}

\* C10 (amended): a key the tool does not declare is ignored.  A call that
\* holds one next to valid declared keys is dispatched: it issues exactly one
\* HTTP request, its result is no argument error, and a record it writes is
\* made of the declared keys alone.
C10_UndeclaredKeyIgnored ==
    \A r \in Requests : \A res \in Results(r) :
        Undeclared(res.call) /\ ~InvalidArgument(res.call) =>
           /\ Cardinality(WireOf(r, res.call.id)) = 1
           /\ res.out.text \notin ArgumentErrors
           /\ \A k \in WireOf(r, res.call.id) :
                 wire[k].ok /\ res.call.name = "tool_create_expense" =>
                    LET pairs == ParsePairs(res.call.args)
                        description == IF "description" \in DOMAIN pairs
                                       THEN pairs["description"] ELSE "expense"
                    IN res.out.data
                          = <<Record(pairs["user_id"], FloatOf[pairs["amount"]], description)>>

\* C10 witness: a create-expense call with an undeclared key has written its
\* record.
C10_Witness ==
    \E r \in Requests : \E res \in Results(r) :
        /\ Undeclared(res.call)
        /\ \E k \in WireOf(r, res.call.id) : wire[k].ok
        /\ Len(remote.expenses) = 1

\* A call of the reasoning service of the request has failed: every call that
\* returns adds one assistant message to the history.
ModelCallFailed(r) ==
    modelCalls[r] > Cardinality({i \in DOMAIN messages[r] : messages[r][i].type = "ai"})

\* C11 (as claimed): a request whose call of the reasoning service failed
\* ends in Done, its reply being the text of a last assistant message: on
\* /chat a 200 answer with that text, on /chat/stream the end event; no
\* exception leaves the run of the graph.
C11_ModelFailureEndsInDone ==
    \A r \in Requests :
        ModelCallFailed(r) =>
            /\ pc[r] = "end"
            /\ messages[r][Len(messages[r])].type = "ai"
            /\ messages[r][Len(messages[r])].tool_calls = <<>>
            /\ endpoint[r] = "chat" =>
                  /\ reply[r].status = 200
                  /\ reply[r].message = messages[r][Len(messages[r])].content.text
            /\ endpoint[r] = "stream" => LastEvent(r) = EndEvent(sid[r])

\* C12: a failed call of the reasoning service is not retried: the request is
\* in error from the failure on, and from then on it makes no further model
\* call, completes no tool invocation and issues no HTTP request to a
\* collaborator, whatever other requests do afterwards.
C12_NoRetryAfterModelFailure ==
    [][\A r \in Requests :
          /\ ModelCallFailed(r)' => pc'[r] = "error"
          /\ ModelCallFailed(r) =>
                /\ modelCalls'[r] = modelCalls[r]
                /\ lastInput'[r] = lastInput[r]
                /\ responses'[r] = responses[r]
                /\ messages'[r] = messages[r]
                /\ \A k \in DOMAIN wire' : k > Len(wire) => wire'[k].req # r]_vars

\* C12 witness: the second model call of a request failed, after a batch of
\* tool calls, and a later request has since called the model and a tool.
C12_Witness ==
    \E r \in Requests, q \in Requests :
        /\ r # q /\ ModelCallFailed(r) /\ modelCalls[r] = 2 /\ Cycles(r) = 1
        /\ modelCalls[q] >= 2 /\ \E k \in DOMAIN wire : wire[k].req = q

\* The places of the terminal events of a stream.
Terminal(r) == {i \in DOMAIN events[r] : events[r][i].type \in {"end", "error"}}

\* C13: a stream has at most one terminal event, end or error, and nothing
\* after it; a stream whose run is over has one: the end event when the run
\* reached END, the error event when an exception ended it (a failed model
\* call, the recursion limit); a stream whose run is under way has none.
C13_OneTerminalEvent ==
    \A r \in Requests :
        endpoint[r] = "stream" /\ pc[r] # "rejected" =>
            /\ events[r] # <<>>
            /\ Cardinality(Terminal(r)) <= 1
            /\ \A i \in Terminal(r) : i = Len(events[r])
            /\ pc[r] = "end" <=> LastEvent(r).type = "end"
            /\ pc[r] = "error" <=> LastEvent(r).type = "error"

\* C13 witness: one stream has ended with the end event after a tool result,
\* another with the error event of the recursion limit.
C13_Witness ==
    \E r \in Requests, q \in Requests :
        /\ endpoint[r] = "stream" /\ pc[r] = "end" /\ LastEvent(r) = EndEvent(sid[r])
        /\ \E i \in DOMAIN events[r] : events[r][i].type = "tool_result"
        /\ endpoint[q] = "stream" /\ pc[q] = "error"
        /\ LastEvent(q) = ErrorEvent("recursion limit reached")

\* The places of the events of a type in a stream.
EventsOf(r, type) == {i \in DOMAIN events[r] : events[r][i].type = type}

\* C14: the events of a stream follow the steps of the run: the start event
\* is the first and the only one; there is one tool_call event for each
\* assistant message with tool calls; every tool_result event has a tool_call
\* event before it with no other tool_result event in between; and when the
\* run has reached END with a text, the token event of that text comes after
\* every tool_result event, right before the end event.
C14_EventsInOrder ==
    \A r \in Requests :
        endpoint[r] = "stream" /\ pc[r] # "rejected" =>
            /\ EventsOf(r, "start") = {1}
            /\ Cardinality(EventsOf(r, "tool_call")) = Cycles(r)
            /\ \A j \in EventsOf(r, "tool_result") :
                  \E i \in EventsOf(r, "tool_call") :
                      /\ i < j
                      /\ \A k \in EventsOf(r, "tool_result") : ~(i < k /\ k < j)
            /\ pc[r] = "end" /\ messages[r][Len(messages[r])].content.text # "" =>
                  /\ Len(events[r]) - 1 \in EventsOf(r, "token")
                  /\ events[r][Len(events[r]) - 1].content =
                        messages[r][Len(messages[r])].content.text
                  /\ \A j \in EventsOf(r, "tool_result") : j < Len(events[r]) - 1

\* C14 witness: a stream that has ended with a final text after a batch of
\* two tool calls.
C14_Witness ==
    \E r \in Requests :
        /\ endpoint[r] = "stream" /\ pc[r] = "end"
        /\ \E j \in EventsOf(r, "tool_result") : Len(events[r][j].outputs) = 2
        /\ Len(events[r]) - 1 \in EventsOf(r, "token")

\* The last message of the history of a request is an assistant message
\* with, or without, tool calls.
LastAsks(msgs) ==
    msgs # <<>> /\ msgs[Len(msgs)].type = "ai" /\ msgs[Len(msgs)].tool_calls # <<>>

LastAnswers(msgs) ==
    msgs # <<>> /\ msgs[Len(msgs)].type = "ai" /\ msgs[Len(msgs)].tool_calls = <<>>

\* C15: the run of a request is one sequential flow, Reasoning being the
\* "agent" node, Acting the "tools" node and Done END.  "tools" is entered
\* only from "agent", by the model call that appended a message with tool
\* calls; "tools" is left only for "agent" (or by the exception that aborts
\* the run at the recursion limit); "agent" is entered only at the start and
\* from "tools"; END is entered only from "agent", by the model call that
\* appended a message without tool calls; the model is called only while no
\* tool invocation is under way and tools run only in "tools"; nothing of the
\* request changes after END.
C15_SequentialFlow ==
    [][\A r \in Requests :
          /\ pc'[r] = "tools" /\ pc[r] # "tools" =>
                /\ pc[r] = "agent" /\ modelCalls'[r] = modelCalls[r] + 1
                /\ LastAsks(messages'[r])
          /\ pc[r] = "tools" /\ pc'[r] # "tools" =>
                \/ pc'[r] = "agent"
                \/ pc'[r] = "error" /\ steps[r] >= RecursionLimit
          /\ pc'[r] = "agent" /\ pc[r] # "agent" => pc[r] \in {"idle", "tools"}
          /\ pc'[r] = "end" /\ pc[r] # "end" =>
                /\ pc[r] = "agent" /\ modelCalls'[r] = modelCalls[r] + 1
                /\ LastAnswers(messages'[r])
          /\ modelCalls'[r] # modelCalls[r] => pc[r] = "agent" /\ responses[r] = <<>>
          /\ (responses'[r] # responses[r] \/ \E k \in DOMAIN wire' : k > Len(wire) /\ wire'[k].req = r)
                => pc[r] = "tools" \/ (pc[r] = "agent" /\ pc'[r] = "tools")
          /\ pc[r] = "end" =>
                /\ pc'[r] = "end" /\ messages'[r] = messages[r]
                /\ modelCalls'[r] = modelCalls[r] /\ responses'[r] = responses[r]
                /\ reply'[r] = reply[r] /\ events'[r] = events[r]
                /\ \A k \in DOMAIN wire' : k > Len(wire) => wire'[k].req # r]_vars

\* C15 witness: a request that went Start, Reasoning, Acting, Reasoning,
\* Acting, Reasoning, Done, and after which another request has run.
C15_Witness ==
    \E r \in Requests, q \in Requests :
        /\ r # q /\ pc[r] = "end" /\ Cycles(r) = 2 /\ modelCalls[r] = 3
        /\ Len(messages[r]) = 6 /\ pc[q] = "tools"

\* C16: when the latest message is an assistant message with no tool calls
\* and an empty text, the request is at END with "" as its reply (the 200
\* answer of /chat, the end event of /chat/stream with no token event), and
\* every model call of the request has returned: none was made after it.
C16_EmptyAnswerIsFinal ==
    \A r \in Requests :
        LastAnswers(messages[r]) /\ messages[r][Len(messages[r])].content.text = "" =>
            /\ pc[r] = "end"
            /\ ~ModelCallFailed(r)
            /\ lastInput[r] = ModelInput(SubSeq(messages[r], 1, Len(messages[r]) - 1))
            /\ endpoint[r] = "chat" =>
                  reply[r] = [status |-> 200, session_id |-> sid[r], message |-> ""]
            /\ endpoint[r] = "stream" =>
                  /\ LastEvent(r) = EndEvent(sid[r])
                  /\ events[r][Len(events[r]) - 1].type # "token"

\* C16 witness: the second model call of a /chat request returned an empty
\* message after a batch of tool calls.
C16_Witness ==
    \E r \in Requests :
        /\ endpoint[r] = "chat" /\ modelCalls[r] = 2 /\ Cycles(r) = 1
        /\ LastAnswers(messages[r]) /\ messages[r][Len(messages[r])].content.text = ""
        /\ reply[r].status = 200

\* tool_executor.batch returns an empty list for the invocations of the last
\* message.  The executor of the library returns one result for each
\* invocation; this is the executor the defence of C17 is meant for.
batch_returns_nothing(r) ==
    /\ pc[r] = "tools"
    /\ steps[r] < RecursionLimit
    /\ responses[r] # <<>>
    /\ \A i \in DOMAIN responses[r] : ~responses[r][i].done
    /\ responses' = [responses EXCEPT ![r] = <<>>]
    /\ UNCHANGED <<pc, sid, messages, steps, modelCalls, lastInput, reply, remote, wire,
                   endpoint, events, request, categories, lookups>>

\* One request, with an executor that may return no results.
NextFaultyExecutor ==
    \E r \in FirstRequest :
        \/ \E u \in UserIds, m \in Texts, s \in SessionIds : chat(r, u, m, s)
        \/ \E u \in UserIds, m \in Texts, s \in SessionIds : chat_stream(r, u, m, s)
        \/ \E resp \in SessionResponses(messages[r]) : call_model(r, resp)
        \/ \E i \in 1..MaxBatch, net \in NetOutcomes : execute_tool(r, i, net)
        \/ batch_returns_nothing(r)
        \/ call_tools(r)
        \/ recursion_error(r)

SpecFaultyExecutor == Init /\ [][NextFaultyExecutor]_vars

C18_ProgressKeptAfterFailure ==
    \A p \in FirstRequest, q \in Requests \ FirstRequest :
        /\ ModelCallFailed(p) /\ Cycles(p) >= 1
        /\ sid[p] = sid[q] /\ modelCalls[q] >= 1
        => \A i \in DOMAIN messages[p] :
              messages[p][i].type \in {"ai", "tool"} =>
                 \E k \in DOMAIN lastInput[q] :
                    /\ lastInput[q][k].type = messages[p][i].type
                    /\ lastInput[q][k].content = messages[p][i].content
                    /\ lastInput[q][k].tool_calls = messages[p][i].tool_calls
                    /\ lastInput[q][k].tool_call_id = messages[p][i].tool_call_id

\* The HTTP requests of a request of the program.
WireOfRequest(r) == {k \in DOMAIN wire : wire[k].req = r}

\* C19: no tool call is retried: every HTTP request to a collaborator was
\* issued for a tool call of an assistant message of the history, every tool
\* call issued at most one, failed or not, and so a request of the program
\* issued no more HTTP requests than its assistant messages hold tool calls.
C19_NoRetryOfToolCalls ==
    \A r \in Requests :
        /\ \A k \in WireOfRequest(r) :
              \E s \in CallSites(messages[r]) : CallAt(messages[r], s).id = wire[k].call
        /\ \A s \in CallSites(messages[r]) :
              Cardinality(WireOf(r, CallAt(messages[r], s).id)) <= 1
        /\ Cardinality(WireOfRequest(r)) <= Cardinality(CallSites(messages[r]))

\* C19 witness: the POST of a tool_create_expense call failed, the failure
\* was handed to the model as the result, and the request ended with that one
\* HTTP request and no expense written.
C19_Witness ==
    \E r \in Requests :
        /\ pc[r] = "end"
        /\ \E res \in Results(r) :
              /\ res.call.name = "tool_create_expense"
              /\ res.out.text = "{'error': 'Failed to create expense'}"
              /\ \E k \in WireOf(r, res.call.id) : ~wire[k].ok
        /\ Cardinality(WireOfRequest(r)) = 1
        /\ remote.expenses = <<>>

\* Requests in flight at the same time: the handlers are coroutines of one
\* event loop, the nodes of a run and the invocations of a batch are handed
\* to worker threads, so the steps of different requests interleave freely.
NextConcurrent ==
    \E r \in Requests :
        \/ \E u \in UserIds, m \in Texts, s \in SessionIds : chat(r, u, m, s)
        \/ \E u \in UserIds, m \in Texts, s \in SessionIds : chat_stream(r, u, m, s)
        \/ \E resp \in SessionResponses(messages[r]) : call_model(r, resp)
        \/ \E i \in 1..MaxBatch, net \in NetOutcomes : execute_tool(r, i, net)
        \/ call_tools(r)
        \/ recursion_error(r)

SpecConcurrent == Init /\ [][NextConcurrent]_vars

\* What the program holds for one request: the state of its run of the
\* graph and of its handler.
Local(r) ==
    <<pc[r], sid[r], messages[r], responses[r], steps[r], modelCalls[r], lastInput[r],
      reply[r], events[r], endpoint[r]>>

\* C20: requests with different session ids do not touch each other's state
\* in the program, however their steps interleave: a step changes what the
\* program holds for one of them at most; a history changes only by a step of
\* its own request (its arrival, or a node of its run); and the model of a
\* request is called on the history of that request alone.  The records of
\* the collaborators are outside the program: requests of one user meet
\* there whatever their sessions.
C20_SessionsIndependent ==
    [][\A p \in Requests, q \in Requests :
          p # q /\ pc'[p] \notin {"idle", "rejected"} /\ pc'[q] \notin {"idle", "rejected"}
          /\ sid'[p] # sid'[q] =>
              /\ ~(Local(p)' # Local(p) /\ Local(q)' # Local(q))
              /\ messages'[q] # messages[q] => pc[q] = "idle" \/ steps'[q] = steps[q] + 1
              /\ lastInput'[q] # <<>> =>
                    IsPrefix(lastInput'[q], ModelInput(messages'[q]))]_vars

\* C20 witness: two requests with different session ids are in flight, one
\* on each endpoint, each back at the "agent" node with its tool call
\* answered, and each has issued an HTTP request.
C20_Witness ==
    /\ \A r \in Requests : pc[r] = "agent" /\ Len(messages[r]) = 3
    /\ \E p \in Requests, q \in Requests :
          /\ p # q /\ sid[p] = "s1" /\ sid[q] = "user-u1-thread"
          /\ endpoint[p] = "chat" /\ endpoint[q] = "stream"
    /\ Len(wire) = 2 /\ wire[1].req # wire[2].req

\* The tool messages right after the assistant message at place i answer its
\* tool calls, one for each, in order.
Answered(msgs, i) ==
    /\ i + Len(msgs[i].tool_calls) <= Len(msgs)
    /\ \A k \in DOMAIN msgs[i].tool_calls :
          /\ msgs[i + k].type = "tool"
          /\ msgs[i + k].tool_call_id = msgs[i].tool_calls[k].id

\* C21: under every interleaving of the steps of two requests, of one session
\* or not, every history keeps the pairing of tool calls and tool results:
\* the tool calls of an assistant message are followed at once by their tool
\* messages, unless the message is the last one and its batch is under way
\* (or the run was aborted there), and every tool message is one of those.
C21_PairingUnderInterleaving ==
    \A r \in Requests :
        LET msgs == messages[r]
        IN /\ \A i \in AskIdx(msgs) :
                 \/ Answered(msgs, i)
                 \/ i = Len(msgs) /\ pc[r] \in {"tools", "error"}
           /\ \A j \in DOMAIN msgs :
                 msgs[j].type = "tool" =>
                    \E i \in AskIdx(msgs) :
                       Answered(msgs, i) /\ i < j /\ j <= i + Len(msgs[i].tool_calls)

\* C21 witness: two requests of one session are in flight; one has its batch
\* under way while the other one, which arrived later, has got its tool
\* result and the next message of the model.
C21_Witness ==
    \E p \in Requests, q \in Requests :
        /\ p # q /\ sid[p] = "s1" /\ sid[q] = "s1"
        /\ pc[p] = "tools" /\ Len(messages[p]) = 2 /\ modelCalls[p] = 1
        /\ pc[q] \in {"tools", "end"} /\ Len(messages[q]) = 4
        /\ Len(wire) = 1 /\ wire[1].req = q

\* The caller of /chat/stream goes away while the run is under way: the
\* generator is closed at its next yield or await, and the state of the run,
\* which only the run holds, goes with it.  No later event is yielded.  (A
\* node that is running in a worker thread at that moment is not interrupted;
\* the model lets the abort come at any point, after its effects too.)
abort(r) ==
    /\ endpoint[r] = "stream"
    /\ pc[r] \in {"agent", "tools"}
    /\ pc' = [pc EXCEPT ![r] = "aborted"]
    /\ UNCHANGED <<sid, messages, responses, steps, modelCalls, lastInput, reply, remote,
                   wire, endpoint, events, request, categories, lookups>>

\* Successive requests, one at a time, whose callers may abort a stream.
NextAbort ==
    \E r \in Requests :
        \/ /\ \A q \in Requests \ {r} : r \in FirstRequest \/ pc[q] \in Finished
           /\ \/ \E u \in UserIds, m \in Texts, s \in SessionIds : chat(r, u, m, s)
              \/ \E u \in UserIds, m \in Texts, s \in SessionIds : chat_stream(r, u, m, s)
        \/ \E resp \in SessionResponses(messages[r]) : call_model(r, resp)
        \/ \E i \in 1..MaxBatch, net \in NetOutcomes : execute_tool(r, i, net)
        \/ call_tools(r)
        \/ recursion_error(r)
        \/ abort(r)

SpecAbort == Init /\ [][NextAbort]_vars

\* C22: nothing of an aborted stream is left in the history of its session:
\* a request that comes after an aborted one, of the same session or not,
\* starts from its own human message, and no model call of it is made on a
\* history with an assistant message whose tool calls are not answered.
C22_AbortLeavesNoUnansweredCall ==
    \A p \in Requests, q \in Requests :
        pc[p] = "aborted" /\ p # q /\ messages[q] # <<>> =>
            /\ messages[q][1].type = "human"
            /\ \A i \in AskIdx(messages[q]) :
                  Answered(messages[q], i) \/ (i = Len(messages[q]) /\ pc[q] # "agent")
            /\ \A i \in AskIdx(lastInput[q]) : Answered(lastInput[q], i)

\* C22 witness: a stream was aborted while its batch was under way, after
\* the expense had been written, and a later request of the same session has
\* called the model.
C22_Witness ==
    \E p \in Requests, q \in Requests :
        /\ pc[p] = "aborted" /\ LastAsks(messages[p])
        /\ \E k \in DOMAIN wire : wire[k].req = p /\ wire[k].ok
        /\ p # q /\ sid[q] = sid[p] /\ endpoint[q] = "chat" /\ modelCalls[q] >= 1

\* The expenses a user had at the moment of the HTTP request at place k of
\* the wire: the POSTs of expenses that went through before it.
WrittenBefore(k, user_id) ==
    {j \in 1..(k - 1) :
        wire[j].op = "POST /expenses" /\ wire[j].ok /\ wire[j].user_id = user_id}

\* C23: when tool_create_expense wrote an expense of a user and a later
\* tool_fetch_expenses of the same user went through, with a limit that is
\* not less than the number of expenses the user had by then, the result of
\* the fetch holds the record the create returned.
C23_CreatedRecordIsFetched ==
    \A r \in Requests :
        \A c \in Results(r), f \in Results(r) :
            c.call.name = "tool_create_expense" /\ f.call.name = "tool_fetch_expenses" =>
                \A kc \in WireOf(r, c.call.id), kf \in WireOf(r, f.call.id) :
                    /\ kc < kf /\ wire[kc].ok /\ wire[kf].ok
                    /\ wire[kc].user_id = wire[kf].user_id
                    /\ Limit(ParsePairs(f.call.args)) >=
                          Cardinality(WrittenBefore(kf, wire[kf].user_id))
                    => \E i \in DOMAIN f.out.data : f.out.data[i] = c.out.data[1]

\* C23 witness: in one batch the create went through before the fetch, and
\* the result of the fetch is the one record.
C23_Witness ==
    \E r \in Requests :
        \E c \in Results(r), f \in Results(r) :
            /\ c.call.name = "tool_create_expense" /\ f.call.name = "tool_fetch_expenses"
            /\ \E kc \in WireOf(r, c.call.id), kf \in WireOf(r, f.call.id) :
                  kc < kf /\ wire[kc].ok /\ wire[kf].ok
            /\ f.out.data = c.out.data /\ Len(f.out.data) = 1

\* The results of the tool_fetch_expenses calls that went through for a user
\* who had no expense by then.
EmptyFetches(r) ==
    {f \in Results(r) :
        /\ f.call.name = "tool_fetch_expenses"
        /\ \E kf \in WireOf(r, f.call.id) :
              wire[kf].ok /\ WrittenBefore(kf, wire[kf].user_id) = {}}

\* C24 (as claimed): tool_fetch_expenses for a user with no expense returns
\* the text "No expenses found for this user.".
C24_EmptyFetchIsSentence ==
    \A r \in Requests :
        \A f \in EmptyFetches(r) : f.out.text = "No expenses found for this user."

\* C24 (amended): tool_fetch_expenses for a user with no expense returns the
\* text of the empty list, "[]", with no record, and that is no error result.
C24_EmptyFetchIsEmptyList ==
    \A r \in Requests :
        \A f \in EmptyFetches(r) :
            /\ f.out.text = "[]" /\ f.out.data = <<>>
            /\ f.out.text \notin ArgumentErrors \cup HandlerErrors

\* C24 witness: the fetch of a user with no expense was answered and the
\* model was called with the answer.
C24_Witness ==
    \E r \in Requests :
        /\ modelCalls[r] = 2 /\ remote.expenses = <<>>
        /\ \E f \in EmptyFetches(r) :
              \E i \in DOMAIN lastInput[r] :
                  lastInput[r][i].type = "tool" /\ lastInput[r][i].content = f.out

\* The expenses the collaborator holds from earlier requests: more than a
\* summary of the newest few would show.
StockSize == 8

Stock == [i \in 1..StockSize |-> Record("u1", i * 100, "coffee")]

InitStocked ==
    /\ pc = [r \in Requests |-> "idle"]
    /\ sid = [r \in Requests |-> ""]
    /\ messages = [r \in Requests |-> <<>>]
    /\ responses = [r \in Requests |-> <<>>]
    /\ steps = [r \in Requests |-> 0]
    /\ modelCalls = [r \in Requests |-> 0]
    /\ lastInput = [r \in Requests |-> <<>>]
    /\ reply = [r \in Requests |-> NoReply]
    /\ remote = [expenses |-> Stock, notes |-> <<>>]
    /\ wire = <<>>
    /\ endpoint = [r \in Requests |-> ""]
    /\ events = [r \in Requests |-> <<>>]
    /\ request = [r \in Requests |-> NoRequest]
    /\ categories = <<>>
    /\ lookups = [c \in Callers |-> NoLookup]

\* The fetches the service asks for: with the default limit, with limit 1.
FetchBatches ==
    {<<Call("tool_fetch_expenses", F_default)>>, <<Call("tool_fetch_expenses", F_good)>>,
     <<Call("tool_fetch_expenses", F_default), Call("tool_fetch_expenses", F_good)>>}

\* One request to a program whose collaborator holds the stock.
NextStocked ==
    \E r \in FirstRequest :
        \/ \E u \in UserIds, m \in Texts, s \in SessionIds : chat(r, u, m, s)
        \/ \E u \in UserIds, m \in Texts, s \in SessionIds : chat_stream(r, u, m, s)
        \/ \E resp \in Responses(messages[r], FetchBatches) : call_model(r, resp)
        \/ \E i \in 1..MaxBatch, net \in NetOutcomes : execute_tool(r, i, net)
        \/ call_tools(r)
        \/ recursion_error(r)

SpecStocked == InitStocked /\ [][NextStocked]_vars

\* The results of the tool_fetch_expenses calls that went through.
Fetches(r) ==
    {f \in Results(r) :
        /\ f.call.name = "tool_fetch_expenses"
        /\ \E kf \in WireOf(r, f.call.id) : wire[kf].ok}

\* C25 (as claimed): the result of a fetch that went through holds at most
\* seven records, and the total number of records and the sum of the amounts
\* next to them.
C25_FetchIsSummarized ==
    \A r \in Requests :
        \A f \in Fetches(r) :
            /\ Len(f.out.data) <= 7
            /\ {"count", "sum"} \subseteq DOMAIN f.out

\* C25 (amended): the result of a fetch that went through is the list the
\* collaborator answered, as it came: the newest records of the user up to
\* the limit of the call (20 when the call names none), all of them, with
\* nothing next to them.
C25_FetchIsRawList ==
    \A r \in Requests :
        \A f \in Fetches(r) :
            LET pairs == ParsePairs(f.call.args)
            IN /\ f.out.data = Newest(remote.expenses, pairs["user_id"], Limit(pairs))
               /\ f.out.text = StrList(f.out.data, "[expenses]")
               /\ DOMAIN f.out = {"text", "data"}

\* C25 witness: a fetch with the default limit was answered with more than
\* seven records, the whole stock, and the model was called with the answer.
C25_Witness ==
    \E r \in Requests :
        /\ modelCalls[r] = 2
        /\ \E f \in Fetches(r) : Len(f.out.data) > 7 /\ Len(f.out.data) = StockSize

\* Faulty variant: the first assistant message in place of the last.
run_agent_first(result_messages) ==
    LET ai == {i \in DOMAIN result_messages : result_messages[i].type = "ai"}
    IN IF ai = {} THEN "No response generated"
       ELSE result_messages[CHOOSE i \in ai : \A j \in ai : i <= j].content.text

\* run_agent: the content of the last AIMessage of the final state, found by
\* going through the messages in reverse.
run_agent(result_messages) ==
    LET ai == {i \in DOMAIN result_messages : result_messages[i].type = "ai"}
    IN IF ai = {} THEN "No response generated"
       ELSE result_messages[CHOOSE i \in ai : \A j \in ai : j <= i].content.text

\* C26: when a run has reached END, the last message of its history is an
\* assistant message without tool calls; the reply of /chat, the content of
\* the last message, is what run_agent returns for the same final state; and
\* run_agent does not fall back to "No response generated".
C26_RepliesAgree ==
    \A r \in Requests :
        pc[r] = "end" =>
            /\ LastAnswers(messages[r])
            /\ run_agent(messages[r]) = messages[r][Len(messages[r])].content.text
            /\ endpoint[r] = "chat" => reply[r].message = run_agent(messages[r])
            /\ run_agent(messages[r]) # "No response generated"

\* C26 witness: a /chat request ended with a text after an assistant message
\* with another text and a tool call.
C26_Witness ==
    \E r \in Requests :
        /\ pc[r] = "end" /\ endpoint[r] = "chat" /\ reply[r].message = "All done."
        /\ messages[r][2].content.text = "Let me check." /\ Cycles(r) >= 1

\* C27: a step of the "agent" node whose model call returns adds one message
\* to the history, an assistant message at the end, and leaves the messages
\* before it as they were; a step whose model call fails adds nothing.  The
\* system prompt, which is the first message of the input of the model, is
\* no message of the history before or after the step.
C27_OneMessagePerModelCall ==
    [][\A r \in Requests :
          modelCalls'[r] # modelCalls[r] =>
              /\ lastInput'[r] = <<AIMessage(SystemPrompt, <<>>)>> \o messages[r]
              /\ \A i \in DOMAIN messages'[r] : messages'[r][i].content.text # SystemPrompt
              /\ \/ /\ ~ModelCallFailed(r)'
                    /\ Len(messages'[r]) = Len(messages[r]) + 1
                    /\ SubSeq(messages'[r], 1, Len(messages[r])) = messages[r]
                    /\ messages'[r][Len(messages'[r])].type = "ai"
                 \/ /\ ModelCallFailed(r)'
                    /\ messages'[r] = messages[r]]_vars

\* C27 witness: the third model call of a request has returned, on a history
\* with two batches of tool calls answered.
C27_Witness ==
    \E r \in Requests :
        /\ modelCalls[r] = 3 /\ ~ModelCallFailed(r) /\ Len(messages[r]) = 6
        /\ Len(lastInput[r]) = 6 /\ lastInput[r][1].content.text = SystemPrompt

\* The place of the n-th element of a set of places, counted from 1.
Nth(S, n) == CHOOSE i \in S : Cardinality({j \in S : j <= i}) = n

\* C28: in a stream, the n-th tool_result event comes after the n-th
\* tool_call event, with no other tool_call event between them, and has as
\* many outputs as that event has names; the names are those of the tool
\* calls of the n-th assistant message with tool calls, in order, and the
\* outputs are the contents of the tool messages that answer them, in order.
C28_OutputsMatchNames ==
    \A r \in Requests :
        endpoint[r] = "stream" =>
            \A n \in 1..Cardinality(EventsOf(r, "tool_result")) :
                LET j == Nth(EventsOf(r, "tool_result"), n)
                    i == Nth(EventsOf(r, "tool_call"), n)
                    a == Nth(AskIdx(messages[r]), n)
                    tool_calls == messages[r][a].tool_calls
                IN /\ i < j
                   /\ \A k \in EventsOf(r, "tool_call") : k <= i \/ k > j
                   /\ Len(events[r][j].outputs) = Len(events[r][i].tools)
                   /\ Len(events[r][i].tools) = Len(tool_calls)
                   /\ \A k \in DOMAIN tool_calls :
                         /\ events[r][i].tools[k] = tool_calls[k].name
                         /\ events[r][j].outputs[k] = messages[r][a + k].content
                         /\ messages[r][a + k].tool_call_id = tool_calls[k].id

\* C28 witness: a stream with the events of a batch of two different tools,
\* the second of which completed first.
C28_Witness ==
    \E r \in Requests :
        /\ endpoint[r] = "stream"
        /\ \E j \in EventsOf(r, "tool_result") :
              /\ Len(events[r][j].outputs) = 2
              /\ events[r][j].outputs[1] # events[r][j].outputs[2]
        /\ \E i \in EventsOf(r, "tool_call") :
              Len(events[r][i].tools) = 2 /\ events[r][i].tools[1] # events[r][i].tools[2]
        /\ Len(wire) = 2 /\ wire[1].call > wire[2].call

\* C29: a request of either endpoint is rejected when, and only when, its
\* user_id or its message is empty; a rejected request is answered 400, and
\* the program has done nothing else for it: no run, no model call, no tool
\* call, no HTTP request to a collaborator, no event, no history.
C29_EmptyFieldsRejected ==
    \A r \in Requests :
        pc[r] # "idle" =>
            /\ pc[r] = "rejected" <=> (request[r].user_id = "" \/ request[r].message = "")
            /\ pc[r] = "rejected" =>
                  /\ reply[r] = [status |-> 400, session_id |-> "",
                                 message |-> "user_id and message are required."]
                  /\ modelCalls[r] = 0 /\ lastInput[r] = <<>> /\ steps[r] = 0
                  /\ messages[r] = <<>> /\ responses[r] = <<>> /\ events[r] = <<>>
                  /\ sid[r] = "" /\ WireOfRequest(r) = {}

\* C29 witness: a /chat/stream request with a user_id and a session id and
\* an empty message was rejected, and a later request has run a tool.
C29_Witness ==
    \E r \in Requests, q \in Requests :
        /\ pc[r] = "rejected" /\ endpoint[r] = "stream"
        /\ request[r] = ChatRequest("u1", "", "s1")
        /\ r # q /\ WireOfRequest(q) # {} /\ pc[q] = "end"

(***************************************************************************)
(* SupabaseStorage.get_or_create_category                                  *)
(***************************************************************************)
\* The most rows the table is let grow to.
MaxRows == 3

CategoryUsers == {"u1", "u2"}
CategoryNames == {"food", " food ", "FOOD", "rent"}

\* str.lower, which ilike compares by, and name.strip().title(), on the names
\* in use and on what title() makes of them.
Lower ==
    ("food" :> "food") @@ (" food " :> " food ") @@ ("FOOD" :> "food") @@
    ("rent" :> "rent") @@ ("Food" :> "food") @@ ("Rent" :> "rent")

StripTitle ==
    ("food" :> "Food") @@ (" food " :> "Food") @@ ("FOOD" :> "Food") @@ ("rent" :> "Rent")

\* .eq("user_id", user_id).ilike("name", name): the rows of the user whose
\* name is the pattern but for the case of the letters.
select_category(rows, user_id, name) ==
    SelectSeq(rows, LAMBDA row : row.user_id = user_id /\ Lower[row.name] = Lower[name])

\* The first half of get_or_create_category: the select; a row found is
\* returned at once.
lookup_category(c, user_id, name) ==
    /\ lookups[c].phase \in {"idle", "returned", "raised"}
    /\ LET data == select_category(categories, user_id, name)
       IN lookups' = [lookups EXCEPT ![c] =
             IF data # <<>> THEN Lookup("returned", user_id, name, data[1])
             ELSE Lookup("inserting", user_id, name, NoRow)]
    /\ UNCHANGED <<pc, sid, messages, responses, steps, modelCalls, lastInput, reply, remote,
                   wire, endpoint, events, request, categories>>

\* The second half: the insert of the standardized name.  The insert either
\* answers with the new row or raises (insert(...).select(...) is not a call
\* every version of the client has; the database may refuse the row).
insert_category(c, outcome) ==
    /\ lookups[c].phase = "inserting"
    /\ Len(categories) < MaxRows
    /\ IF outcome = "ok"
       THEN LET row == [id |-> Len(categories) + 1, user_id |-> lookups[c].user_id,
                        name |-> StripTitle[lookups[c].name]]
            IN /\ categories' = Append(categories, row)
               /\ lookups' = [lookups EXCEPT ![c].phase = "returned", ![c].row = row]
       ELSE /\ lookups' = [lookups EXCEPT ![c].phase = "raised"]
            /\ UNCHANGED categories
    /\ UNCHANGED <<pc, sid, messages, responses, steps, modelCalls, lastInput, reply, remote,
                   wire, endpoint, events, request>>

\* Callers of get_or_create_category, each making one call after the other,
\* the calls of different callers interleaved.
NextCategories ==
    \E c \in Callers :
        \/ \E u \in CategoryUsers, n \in CategoryNames : lookup_category(c, u, n)
        \/ \E outcome \in NetOutcomes : insert_category(c, outcome)

SpecCategories == Init /\ [][NextCategories]_vars

\* C30 (as claimed): whatever calls of get_or_create_category were made, one
\* after the other or interleaved, the table holds at most one row for a
\* user and a name, names that differ in surrounding whitespace or in the
\* case of letters being one name, and a call that returned has returned that
\* row.
C30_OneRowPerUserAndName ==
    /\ \A i \in DOMAIN categories, j \in DOMAIN categories :
          /\ categories[i].user_id = categories[j].user_id
          /\ Lower[categories[i].name] = Lower[categories[j].name]
          => i = j
    /\ \A c \in Callers :
          lookups[c].phase = "returned" =>
              \E i \in DOMAIN categories :
                  /\ categories[i] = lookups[c].row
                  /\ categories[i].user_id = lookups[c].user_id
                  /\ categories[i].name = StripTitle[lookups[c].name]

====
